---- MODULE Spec2Model ----
(***************************************************************************)
(* Model of crm_api.py: the customer table (SQLite, through SQLModel) and  *)
(* the five request handlers create_cliente, read_clientes, read_cliente,  *)
(* update_cliente and delete_cliente.                                      *)
(*                                                                         *)
(* Every request runs in a session of its own (get_session) and the       *)
(* handlers of different requests interleave between the statements they   *)
(* send to the database: a SELECT, a commit, a refresh.                    *)
(*                                                                         *)
(* Spec     : two sessions issuing Create, Get, List, Update and Delete.   *)
(* PageSpec : one session filling a table of up to PageRows customers,     *)
(*            two sessions deleting the first one and paging with List.    *)
(***************************************************************************)
EXTENDS Integers, Sequences, FiniteSets, TLC

VARIABLES
    table,   \* rows of table "cliente", kept in the order they were inserted
    resp,    \* the response the last step sent, with the request it answers
    pc,      \* where each session's handler stands
    sess     \* the handler's locals (id, request body, loaded row)

vars == <<table, resp, pc, sess>>

----------------------------------------------------------------------------
(* Bounds and input sets *)

MaxId == 2            \* Create is not issued once the next id would exceed it
PageRows == 15        \* PageSpec: Create is not issued beyond this id
MaxLimit == 100       \* Query(default=10, le=100)
DefaultLimit == 10    \* Query(default=10, le=100)

Unset == "<unset>"    \* a field the JSON body does not carry
None == "<None>"      \* JSON null / Python None / SQL NULL

Names == {"n1"}
Emails == {"e1", "e2"}
Phones == {"t1"}
Companies == {"c1"}

Procs == {"s1", "s2"}

\* request bodies the clients send: with every required field (with and
\* without the optional ones), and with none of the required fields
FullBodies ==
    [nome : Names, email : Emails, telefone : {Unset}, empresa : {Unset}]
    \cup [nome : Names, email : Emails, telefone : Phones, empresa : Companies]
PartialBodies ==
    [nome : {Unset}, email : {Unset}, telefone : Phones \cup {Unset}, empresa : {Unset}]
Bodies == FullBodies \cup PartialBodies

ReqIds == 1..(MaxId + 1)
Offsets == {-1, 0}
Limits == {-1, 1, MaxLimit + 1}

NoBody == [nome |-> Unset, email |-> Unset, telefone |-> Unset, empresa |-> Unset]
NoRow == [id |-> 0, nome |-> None, email |-> None, telefone |-> None, empresa |-> None]

----------------------------------------------------------------------------
(* ClienteBase / Cliente: schema and validation *)

IsStr(v) == v /= Unset /\ v /= None

\* ClienteBase as a request body: nome and email are required str,
\* telefone and empresa are Optional[str] with default None.
ValidBody(b) == IsStr(b.nome) /\ IsStr(b.email)

\* value of an Optional field after validation: the default None when unset
OrDefault(v) == IF v = Unset THEN None ELSE v

\* Cliente.model_validate(cliente): the table object built from the body,
\* its id still to be assigned by the database
model_validate(b, newid) ==
    [id |-> newid, nome |-> b.nome, email |-> b.email,
     telefone |-> OrDefault(b.telefone), empresa |-> OrDefault(b.empresa)]

\* cliente_update.model_dump(exclude_unset=True): the fields the body carries
Fields == {"nome", "email", "telefone", "empresa"}
model_dump(b) == {f \in Fields : b[f] /= Unset}

\* db_cliente.sqlmodel_update(update_data): setattr for every dumped field
sqlmodel_update(row, b) ==
    [f \in DOMAIN row |-> IF f \in model_dump(b) THEN b[f] ELSE row[f]]

----------------------------------------------------------------------------
(* The storage engine: table cliente, id INTEGER PRIMARY KEY, UNIQUE email *)

Ids(t) == {t[k].id : k \in 1..Len(t)}

Max(S) == CHOOSE x \in S : \A y \in S : y <= x
Min2(a, b) == IF a <= b THEN a ELSE b

\* mutant of NextId: the smallest id not in use
NextId_SmallestFree(t) ==
    CHOOSE i \in 1..(Len(t) + 1) : i \notin Ids(t) /\ \A j \in 1..(i - 1) : j \in Ids(t)

\* rowid given to an INSERT that names none: largest rowid in use plus one
NextId(t) == IF t = <<>> THEN 1 ELSE Max(Ids(t)) + 1

RowOf(t, i) == t[CHOOSE k \in 1..Len(t) : t[k].id = i]

\* session.get(Cliente, id) / SELECT ... WHERE id = ?
Lookup(t, i) == IF i \in Ids(t) THEN RowOf(t, i) ELSE NoRow

\* mutant of EmailExists: the existence check finds nothing
EmailExists_Never(t, e) == FALSE

\* select(Cliente).where(Cliente.email == email).first() is not None
EmailExists(t, e) == \E k \in 1..Len(t) : t[k].email = e

\* mutant of UniqueViolation: the column has no UNIQUE index
UniqueViolation_Off(t, i, e) == FALSE

\* the UNIQUE index on email refuses the write of email e to the row with id i
UniqueViolation(t, i, e) == \E k \in 1..Len(t) : t[k].email = e /\ t[k].id /= i

\* rows in rowid order, the order of a full table scan
Scan(t) == SortSeq(t, LAMBDA a, b : a.id < b.id)

\* SELECT ... LIMIT limit OFFSET offset: a negative OFFSET counts as 0,
\* a negative LIMIT as no limit
SelectPage(t, offset, limit) ==
    LET s == Scan(t)
        off == IF offset < 0 THEN 0 ELSE offset
        hi == IF limit < 0 THEN Len(s) ELSE Min2(Len(s), off + limit)
    IN SubSeq(s, off + 1, hi)

InsertRow(t, row) == Append(t, row)

\* mutant of DeleteRow: DELETE without its WHERE clause
DeleteRow_NoWhere(t, i) == <<>>

DeleteRow(t, i) == SelectSeq(t, LAMBDA r : r.id /= i)

\* UPDATE cliente SET cols WHERE id = i, the values taken from row new
UpdateRow(t, i, cols, new) ==
    [k \in 1..Len(t) |->
        IF t[k].id = i
        THEN [f \in DOMAIN t[k] |-> IF f \in cols THEN new[f] ELSE t[k][f]]
        ELSE t[k]]

----------------------------------------------------------------------------
(* What session.commit() does with the pending object *)

\* commit of session.add(db_cliente) for a new object: INSERT, refused by the
\* UNIQUE index when the email is stored already
CommitInsert(t, b) ==
    IF UniqueViolation(t, 0, b.email)
    THEN [ok |-> FALSE, table |-> t, id |-> 0, detail |-> "IntegrityError"]
    ELSE [ok |-> TRUE, table |-> InsertRow(t, model_validate(b, NextId(t))),
          id |-> NextId(t), detail |-> ""]

\* mutant of CommitUpdate: the UPDATE is not checked against the UNIQUE index
CommitUpdate_Unchecked(t, snap, b) ==
    LET new == sqlmodel_update(snap, b)
        cols == {f \in Fields : new[f] /= snap[f]}
    IN  IF cols = {}
        THEN [ok |-> TRUE, table |-> t, detail |-> ""]
        ELSE IF snap.id \notin Ids(t)
        THEN [ok |-> FALSE, table |-> t, detail |-> "StaleDataError"]
        ELSE [ok |-> TRUE, table |-> UpdateRow(t, snap.id, cols, new), detail |-> ""]

\* commit of the loaded object snap after sqlmodel_update: UPDATE of the
\* attributes whose value changed, WHERE id = snap.id; no statement when none did
CommitUpdate(t, snap, b) ==
    LET new == sqlmodel_update(snap, b)
        cols == {f \in Fields : new[f] /= snap[f]}
    IN  IF cols = {}
        THEN [ok |-> TRUE, table |-> t, detail |-> ""]
        ELSE IF snap.id \notin Ids(t)
        THEN [ok |-> FALSE, table |-> t, detail |-> "StaleDataError"]
        ELSE IF "email" \in cols /\ UniqueViolation(t, snap.id, new.email)
        THEN [ok |-> FALSE, table |-> t, detail |-> "IntegrityError"]
        ELSE [ok |-> TRUE, table |-> UpdateRow(t, snap.id, cols, new), detail |-> ""]

\* commit of session.delete(db_cliente): DELETE WHERE id = ?; a row already
\* gone is only warned about
CommitDelete(t, i) == DeleteRow(t, i)

----------------------------------------------------------------------------
(* Responses *)

Reply(p, op, status, i, b, out, detail) ==
    [proc |-> p, op |-> op, status |-> status, id |-> i, body |-> b,
     offset |-> 0, limit |-> 0, out |-> out, detail |-> detail]

ListReply(p, status, offset, limit, out, detail) ==
    [proc |-> p, op |-> "list", status |-> status, id |-> 0, body |-> NoBody,
     offset |-> offset, limit |-> limit, out |-> out, detail |-> detail]

\* no response was sent
NoReply == Reply("", "none", 0, 0, NoBody, <<>>, "")

NotFound(p, op, i, b) == Reply(p, op, 404, i, b, <<>>, "Cliente nao encontrado")

\* the routing layer refuses a body or a query that fails validation
Unprocessable(p, op, i, b) == Reply(p, op, 422, i, b, <<>>, "validation error")

\* an exception no handler catches
ServerError(p, op, i, b, detail) == Reply(p, op, 500, i, b, <<>>, detail)

\* session.refresh(db_cliente) and the return: the row as stored now
Refreshed(t, p, op, i, b) ==
    IF i \in Ids(t)
    THEN Reply(p, op, 200, i, b, <<RowOf(t, i)>>, "")
    ELSE ServerError(p, op, i, b, "InvalidRequestError")

\* read_clientes: one SELECT
read_clientes(t, p, offset, limit) ==
    IF limit > MaxLimit
    THEN ListReply(p, 422, offset, limit, <<>>, "validation error")
    ELSE ListReply(p, 200, offset, limit, SelectPage(t, offset, limit), "")

\* read_cliente: one SELECT
read_cliente(t, p, i) ==
    IF Lookup(t, i) = NoRow
    THEN NotFound(p, "get", i, NoBody)
    ELSE Reply(p, "get", 200, i, NoBody, <<Lookup(t, i)>>, "")

----------------------------------------------------------------------------
(* The handlers, statement by statement.  A SELECT holds no lock once its   *)
(* rows are fetched; a commit is one write transaction, and the database    *)
(* runs write transactions one at a time.                                   *)

Idle == [p \in Procs |-> "idle"]
NoSess == [p \in Procs |-> [id |-> 0, body |-> NoBody, snap |-> NoRow]]

Init ==
    /\ table = <<>>
    /\ resp = NoReply
    /\ pc = Idle
    /\ sess = NoSess

\* the handler goes on to its next statement
Goto(p, label, s) ==
    /\ pc' = [pc EXCEPT ![p] = label]
    /\ sess' = [sess EXCEPT ![p] = s]
    /\ resp' = NoReply

\* the handler ends and the session is closed
Respond(p, reply) ==
    /\ resp' = reply
    /\ pc' = [pc EXCEPT ![p] = "idle"]
    /\ sess' = [sess EXCEPT ![p] = NoSess[p]]

\* create_cliente up to the existence check; maxid bounds the ids handed out
StepCreateCheck(p, b, maxid) ==
    /\ pc[p] = "idle"
    /\ (ValidBody(b) /\ ~EmailExists(table, b.email)) => NextId(table) <= maxid
    /\ UNCHANGED table
    /\ IF ~ValidBody(b) THEN Respond(p, Unprocessable(p, "create", 0, b))
       ELSE IF EmailExists(table, b.email)
       THEN Respond(p, Reply(p, "create", 400, 0, b, <<>>, "E-mail ja cadastrado"))
       ELSE Goto(p, "create_checked", [id |-> 0, body |-> b, snap |-> NoRow])

\* session.add(db_cliente); session.commit()
StepCreateCommit(p, maxid) ==
    /\ pc[p] = "create_checked"
    /\ LET c == CommitInsert(table, sess[p].body)
       IN  IF ~c.ok
           THEN /\ UNCHANGED table
                /\ Respond(p, ServerError(p, "create", 0, sess[p].body, c.detail))
           ELSE /\ c.id <= maxid
                /\ table' = c.table
                /\ Goto(p, "create_refresh", [sess[p] EXCEPT !.id = c.id])

\* session.refresh(db_cliente); return db_cliente
StepCreateRefresh(p) ==
    /\ pc[p] = "create_refresh"
    /\ UNCHANGED table
    /\ Respond(p, Refreshed(table, p, "create", sess[p].id, sess[p].body))

\* update_cliente up to session.get and the 404
StepUpdateGet(p, i, b) ==
    /\ pc[p] = "idle"
    /\ UNCHANGED table
    /\ IF ~ValidBody(b) THEN Respond(p, Unprocessable(p, "update", i, b))
       ELSE IF Lookup(table, i) = NoRow THEN Respond(p, NotFound(p, "update", i, b))
       ELSE Goto(p, "update_loaded", [id |-> i, body |-> b, snap |-> Lookup(table, i)])

\* sqlmodel_update; session.add; session.commit()
StepUpdateCommit(p) ==
    /\ pc[p] = "update_loaded"
    /\ LET c == CommitUpdate(table, sess[p].snap, sess[p].body)
       IN  IF ~c.ok
           THEN /\ UNCHANGED table
                /\ Respond(p, ServerError(p, "update", sess[p].id, sess[p].body, c.detail))
           ELSE /\ table' = c.table
                /\ Goto(p, "update_refresh", [sess[p] EXCEPT !.snap = NoRow])

\* session.refresh(db_cliente); return db_cliente
StepUpdateRefresh(p) ==
    /\ pc[p] = "update_refresh"
    /\ UNCHANGED table
    /\ Respond(p, Refreshed(table, p, "update", sess[p].id, sess[p].body))

\* delete_cliente up to session.get and the 404
StepDeleteGet(p, i) ==
    /\ pc[p] = "idle"
    /\ UNCHANGED table
    /\ IF Lookup(table, i) = NoRow THEN Respond(p, NotFound(p, "delete", i, NoBody))
       ELSE Goto(p, "delete_loaded", [id |-> i, body |-> NoBody, snap |-> NoRow])

\* session.delete(db_cliente); session.commit(); return the message
StepDeleteCommit(p) ==
    /\ pc[p] = "delete_loaded"
    /\ table' = CommitDelete(table, sess[p].id)
    /\ Respond(p, Reply(p, "delete", 200, sess[p].id, NoBody, <<>>,
                        "Cliente deletado com sucesso"))

Get(p, i) ==
    /\ pc[p] = "idle"
    /\ UNCHANGED table
    /\ Respond(p, read_cliente(table, p, i))

List(p, offset, limit) ==
    /\ pc[p] = "idle"
    /\ UNCHANGED table
    /\ Respond(p, read_clientes(table, p, offset, limit))

Next ==
    \E p \in Procs :
        \/ \E b \in Bodies : StepCreateCheck(p, b, MaxId)
        \/ StepCreateCommit(p, MaxId)
        \/ StepCreateRefresh(p)
        \/ \E i \in ReqIds, b \in Bodies : StepUpdateGet(p, i, b)
        \/ StepUpdateCommit(p)
        \/ StepUpdateRefresh(p)
        \/ \E i \in ReqIds : StepDeleteGet(p, i)
        \/ StepDeleteCommit(p)
        \/ \E i \in ReqIds : Get(p, i)
        \/ \E offset \in Offsets, limit \in Limits : List(p, offset, limit)

Spec == Init /\ [][Next]_vars

----------------------------------------------------------------------------
(* PageSpec: session s1 fills the table, both sessions delete the first *)
(* customer and page through the table                                    *)

Filler == "s1"
PageIds == {1}
PageOffsets == {0, 1, DefaultLimit}
PageLimits == {1, DefaultLimit, MaxLimit}

\* the email of the customer that is created when the next id is k
MailOf(k) == "m" \o ToString(k)

PageBody(k) == [nome |-> "n1", email |-> MailOf(k), telefone |-> Unset, empresa |-> Unset]

PageNext ==
    \/ StepCreateCheck(Filler, PageBody(NextId(table)), PageRows)
    \/ StepCreateCommit(Filler, PageRows)
    \/ StepCreateRefresh(Filler)
    \/ \E p \in Procs :
        \/ \E i \in PageIds : StepDeleteGet(p, i)
        \/ StepDeleteCommit(p)
        \/ \E offset \in PageOffsets, limit \in PageLimits : List(p, offset, limit)

PageSpec == Init /\ [][PageNext]_vars

----------------------------------------------------------------------------
(* Properties *)

RowsWithEmail(t, e) == {k \in 1..Len(t) : t[k].email = e}

Without(t, i) == SelectSeq(t, LAMBDA r : r.id /= i)

PhoneOnly(b) ==
    b.telefone \in Phones /\ b.nome = Unset /\ b.email = Unset /\ b.empresa = Unset

\* C1: in every reachable state, under every interleaving of the statements
\* of Create, Update and Delete, no two stored customers have the same email.
C1_UniqueEmail ==
    \A j, k \in 1..Len(table) : j /= k => table[j].email /= table[k].email

\* an Update that asked for another customer's email was turned down by the
\* storage while both customers are stored
C1_Witness ==
    /\ resp.op = "update" /\ resp.status = 500 /\ resp.detail = "IntegrityError"
    /\ Len(table) = 2
    /\ RowsWithEmail(table, resp.body.email) /= {}

\* C2: a Create that arrives with an email a stored customer already has is
\* answered 400 (DuplicateEmail) at once, inserts no row and changes none:
\* the table still holds exactly one row for that email.  A Create goes on
\* past the existence check only with an email that is not stored.
C2_DuplicateCreateRejected ==
    [][/\ (/\ resp'.op = "create" /\ pc[resp'.proc] = "idle"
           /\ IsStr(resp'.body.nome) /\ IsStr(resp'.body.email)
           /\ RowsWithEmail(table, resp'.body.email) /= {})
          => (/\ resp'.status = 400
              /\ table' = table
              /\ Cardinality(RowsWithEmail(table', resp'.body.email)) = 1)
       /\ \A p \in Procs :
              (pc[p] = "idle" /\ pc'[p] = "create_checked")
              => RowsWithEmail(table, sess'[p].body.email) = {}]_vars

C2_Witness ==
    /\ resp.op = "create" /\ resp.status = 400
    /\ Cardinality(RowsWithEmail(table, resp.body.email)) = 1

\* C3 (as stated): an Update of a stored id whose body carries only the
\* phone is accepted, and that customer then has the phone of the request.
C3_PhoneOnlyUpdateAccepted ==
    (resp.op = "update" /\ PhoneOnly(resp.body) /\ resp.id \in Ids(table))
    => (/\ resp.status = 200
        /\ Lookup(table, resp.id).telefone = resp.body.telefone)

\* C4 (as stated): a Get, Update or Delete that arrives for an id no stored
\* customer has is answered 404 (NotFound) and leaves the table unchanged.
C4_MissingIdIsNotFound ==
    [][(/\ resp'.op \in {"get", "update", "delete"}
        /\ pc[resp'.proc] = "idle"
        /\ resp'.id \notin Ids(table))
       => (resp'.status = 404 /\ table' = table)]_vars

\* C5 (as stated): NotFound is the only failure of Update; in particular no
\* Update ends in the unhandled constraint violation of the storage.
C5_UpdateNeverServerError ==
    (resp.op = "update" /\ resp.status = 500) => resp.detail /= "IntegrityError"

\* C6 (as stated): when Create has answered 200 with a record of id i, a
\* Get(i) issued next returns a record equal to it in every field, and its
\* name, email, phone and company are those of the request (None for an
\* optional field the request left out).
C6_CreateThenGet ==
    (resp.op = "create" /\ resp.status = 200) =>
        LET created == resp.out[1]
            got == read_cliente(table, resp.proc, created.id)
        IN  /\ got.status = 200
            /\ got.out = <<created>>
            /\ created.id = resp.id
            /\ created.nome = resp.body.nome
            /\ created.email = resp.body.email
            /\ created.telefone = OrDefault(resp.body.telefone)
            /\ created.empresa = OrDefault(resp.body.empresa)

\* C7 (as stated): once Delete(i) has succeeded, Get(i) fails with NotFound
\* whatever statement runs next: the id stays absent.
C7_DeletedIdStaysAbsent ==
    [][(resp.op = "delete" /\ resp.status = 200) => resp.id \notin Ids(table')]_vars

\* C7 (amended): the commit of a Delete(i) that answers 200 removes the row
\* with id i if it is still stored and no other row, a Get(i) issued then
\* fails with NotFound, and an id that is absent comes back only through the
\* commit of a Create that is assigned it.
C7_DeleteRemovesUntilReuse ==
    [][/\ (resp'.op = "delete" /\ resp'.status = 200) =>
              /\ table' = Without(table, resp'.id)
              /\ read_cliente(table', resp'.proc, resp'.id).status = 404
       /\ \A i \in ReqIds :
              (i \notin Ids(table) /\ i \in Ids(table')) =>
                  \E p \in Procs : /\ pc[p] = "create_checked"
                                   /\ pc'[p] = "create_refresh"
                                   /\ sess'[p].id = i]_vars

\* a Delete succeeded and left another customer stored
C7_Witness ==
    /\ resp.op = "delete" /\ resp.status = 200
    /\ resp.id \notin Ids(table)
    /\ Len(table) >= 1

\* C8: List(offset, limit) with offset >= 0 and limit in 1..100 answers 200
\* with the customers at positions offset+1 .. min(offset+limit, n) of the
\* insertion order, and changes no row.
C8_ListPage ==
    [][(resp'.op = "list" /\ resp'.offset >= 0 /\ resp'.limit \in 1..MaxLimit)
       => (/\ resp'.status = 200
           /\ table' = table
           /\ resp'.out = SubSeq(table, resp'.offset + 1,
                                 Min2(resp'.offset + resp'.limit, Len(table))))]_vars

\* with every customer of the run stored, List(0, 10) answered with 10 of them
C8_Witness ==
    /\ resp.op = "list" /\ resp.status = 200
    /\ resp.offset = 0 /\ resp.limit = DefaultLimit
    /\ Len(resp.out) = DefaultLimit
    /\ Len(table) = PageRows

\* C9 (as stated): a List response that holds records holds no more than
\* `limit` of them, nor more than 100.
C9_ListAtMostLimit ==
    (resp.op = "list" /\ resp.status = 200 /\ resp.out /= <<>>) =>
        (Len(resp.out) <= resp.limit /\ Len(resp.out) <= MaxLimit)

\* C10: when a Create passed the existence check and the email is stored by
\* the time it commits, the commit fails with a constraint violation (a 500,
\* not the 400), nothing is written and one row holds that email.
C10_RacingCreateFailsInStorage ==
    [][\A p \in Procs :
          (/\ pc[p] = "create_checked" /\ pc'[p] /= "create_checked"
           /\ RowsWithEmail(table, sess[p].body.email) /= {})
          => (/\ resp'.proc = p /\ resp'.op = "create"
              /\ resp'.body = sess[p].body
              /\ resp'.status = 500 /\ resp'.detail = "IntegrityError"
              /\ table' = table
              /\ Cardinality(RowsWithEmail(table', sess[p].body.email)) = 1)]_vars

\* two Creates of one email both passed the check; q committed first and is
\* about to refresh, p committed second and got the 500
C10_Witness ==
    \E p, q \in Procs :
        /\ p /= q
        /\ pc[p] = "idle"
        /\ resp.proc = p /\ resp.op = "create" /\ resp.status = 500
        /\ pc[q] = "create_refresh"
        /\ sess[q].body.email = resp.body.email
        /\ Cardinality(RowsWithEmail(table, resp.body.email)) = 1

====
